---- MODULE Spec2Model ----
(***************************************************************************)
(* Calendar Assistant (src/cal.py): a Streamlit script that is re-run from *)
(* top to bottom on every user interaction.  One action of the model is    *)
(* one user interaction together with the script run(s) it triggers,       *)
(* st.rerun() included.  The remote calendar service and the OAuth         *)
(* libraries are the environment: each of their calls either raises or     *)
(* returns a value drawn from a bounded set.                               *)
(*                                                                         *)
(* Widget state: Streamlit keeps a widget's value from run to run as long  *)
(* as every run renders the widget.  A run that st.rerun() ends counts as  *)
(* a finished run, so the value of a widget it did not reach is dropped    *)
(* and the widget is back at its default in the next run.  The three       *)
(* st.rerun() calls of the script are in the sidebar, before any widget of *)
(* the main content.                                                       *)
(*                                                                         *)
(* Encoding of Python values                                               *)
(*   dict          record; a missing key is a field missing from DOMAIN    *)
(*   None          the record [none |-> TRUE]                              *)
(*   date          its proleptic Gregorian ordinal (date.toordinal())      *)
(*   'YYYY-MM-DD'  [date |-> ordinal]                                      *)
(*   'YYYY-MM-DDTHH:MM:SS<tz>'                                             *)
(*                 [date |-> ordinal, minute |-> minute of day, tz |-> tz] *)
(*   datetime      [date, minute, utcoffset]; a naive one has no utcoffset *)
(*   durations     whole minutes                                           *)
(***************************************************************************)
EXTENDS Integers, Sequences, FiniteSets

VARIABLES
    service,         \* st.session_state.service: None or the client handle
    view,            \* st.session_state.view
    token_file,      \* token.pickle: "absent", "token" or "truncated"
    start_date,      \* value of the "From" date widget of the rendered view
    end_date,        \* value of the "To" date widget of the rendered view
    max_events,      \* value of the upcoming view's "Maximum number" slider
    action,          \* the user interaction that triggered the last run
    auth_steps,      \* steps get_calendar_service took in the last run
    auth_error,      \* exception get_calendar_service raised in it, or None
    screen,          \* main content the last run reached
    messages,        \* st.error / st.info / st.success / st.metric output
    uncaught,        \* exception that escaped the last script run, or None
    calls,           \* remote calendar calls issued by the last run, in order
    events,          \* items of the last list response
    events_by_date,  \* upcoming view: date -> display records
    day_counts,      \* analytics view: weekday name -> count
    duration_df,     \* analytics view: rows summary/duration_minutes/category
    category_counts, \* analytics view: rows Duration/Count, in category order
    avg_duration,    \* analytics view: mean duration as num/den, or None
    submitted,       \* create view: the form the run handled, or None
    created          \* create view: the event the insert call stored, or None

vars == <<service, view, token_file, start_date, end_date, max_events, action,
          auth_steps, auth_error, screen, messages, uncaught, calls, events, events_by_date,
          day_counts, duration_df, category_counts, avg_duration, submitted,
          created>>

----------------------------------------------------------------------------
(* Bounds of the model *)

\* longest list response the remote service returns
MaxEvents == 2
\* ordinal of the day the script runs on (datetime.date.today())
Today == 200
\* days before today of the "To" date the user picks
PickBack == 95
\* days after today of the "From" date the user picks
PickAhead == 20
\* ordinal of the first day events of the list responses fall on
BaseDay == 99
\* position the user moves the "Maximum number of events" slider to
PickedMax == 25
\* largest event duration, in minutes, of the duration analysis inputs
MaxMinutes == 125
\* largest amount, in minutes, by which an event ends before it starts
MaxNegative == 2

----------------------------------------------------------------------------
(* Python values *)

None == [none |-> TRUE]

\* dict.get(key, default)
Get(d, key, default) == IF key \in DOMAIN d THEN d[key] ELSE default

\* truth value of dict.get(key): None is false, a date or date-time string true
Truthy(x) == x # None

\* 'T' in start
HasT(s) == "minute" \in DOMAIN s

\* start.replace('Z', '+00:00')
replace_Z(s) == IF s.tz = "Z" THEN [s EXCEPT !.tz = "+00:00"] ELSE s

\* minutes east of UTC of an ISO-8601 offset suffix
UtcOffset(tz) ==
    CASE tz = "+00:00" -> 0
      [] tz = "+02:00" -> 120

\* datetime.datetime.fromisoformat: an aware datetime holding the fields as
\* they are written; the offset is kept, the fields are not shifted to UTC
fromisoformat(s) ==
    [date |-> s.date, minute |-> s.minute, utcoffset |-> UtcOffset(s.tz)]

\* datetime.datetime.strptime(start, "%Y-%m-%d"): naive midnight of the date
strptime(s) == [date |-> s.date, minute |-> 0]

\* minutes since the epoch of an aware datetime, in UTC
Instant(dt) == dt.date * 1440 + dt.minute - dt.utcoffset

\* variant: the calendar date after normalising an aware datetime to UTC
date_of_utc(dt) ==
    IF "utcoffset" \in DOMAIN dt THEN Instant(dt) \div 1440 ELSE dt.date

\* datetime.date(): the calendar date of the fields, whatever the offset
date_of(dt) == dt.date

\* strftime("%H:%M")
strftime_HM(dt) == [hh |-> dt.minute \div 60, mm |-> dt.minute % 60]

days_order ==
    <<"Monday", "Tuesday", "Wednesday", "Thursday", "Friday", "Saturday",
      "Sunday">>

\* strftime("%A"): date.weekday() is (toordinal() + 6) % 7, Monday = 0
strftime_A(dt) == days_order[((dt.date + 6) % 7) + 1]

\* (end_dt - start_dt).total_seconds() / 60
MinutesBetween(start_dt, end_dt) == Instant(end_dt) - Instant(start_dt)

----------------------------------------------------------------------------
(* Events of the remote calendar *)

DateStr(d) == [date |-> d]

DateTimeStr(d, m, tz) == [date |-> d, minute |-> m, tz |-> tz]

\* an event resource with a date-time start and end
TimedEvent(title, d1, m1, d2, m2, tz) ==
    [summary |-> title,
     start |-> [dateTime |-> DateTimeStr(d1, m1, tz)],
     end |-> [dateTime |-> DateTimeStr(d2, m2, tz)]]

\* an untitled all-day event resource: date-only start and (exclusive) end
AllDayEvent(d) ==
    [start |-> [date |-> DateStr(d)], end |-> [date |-> DateStr(d + 1)]]

Standup == TimedEvent("Standup", BaseDay, 540, BaseDay, 570, "Z")

Review == TimedEvent("Review", BaseDay, 600, BaseDay, 660, "Z")

Holiday == AllDayEvent(BaseDay + 1)

\* written on BaseDay + 1 at 00:30+02:00, which is 22:30 UTC on BaseDay
Call == TimedEvent("Call", BaseDay + 1, 30, BaseDay + 1, 165, "+02:00")

\* a date-time start and a date-only end
Block ==
    [summary |-> "Block",
     start |-> [dateTime |-> DateTimeStr(BaseDay, 480, "Z")],
     end |-> [date |-> DateStr(BaseDay + 1)]]

EventPool == {Standup, Review, Holiday, Call, Block}

SeqUpTo(S, n) == UNION {[1..k -> S] : k \in 0..n}

\* events_result.get('items', []) of a list call that returns
ListItems == SeqUpTo(EventPool, MaxEvents)

\* outcome of events().list(...).execute(): it raises or returns the items
ListResponses ==
    {[raises |-> TRUE]} \cup {[raises |-> FALSE, items |-> q] : q \in ListItems}

----------------------------------------------------------------------------
(* Upcoming view: grouping pass *)

\* event['start'].get('dateTime', event['start'].get('date'))
StartOf(event) == Get(event.start, "dateTime", Get(event.start, "date", None))

\* the datetime the views parse the start marker into
ParseStart(start) ==
    IF HasT(start) THEN fromisoformat(replace_Z(start)) ELSE strptime(start)

event_date(event) == date_of(ParseStart(StartOf(event)))

formatted_time(event) ==
    IF HasT(StartOf(event))
    THEN strftime_HM(ParseStart(StartOf(event)))
    ELSE [text |-> "All day"]

\* the dict appended to events_by_date[event_date]
DisplayRecord(event) ==
    [time |-> formatted_time(event),
     summary |-> Get(event, "summary", "Untitled Event"),
     description |-> Get(event, "description", ""),
     location |-> Get(event, "location", ""),
     color |-> Get(event, "colorId", "0")]

\* one iteration of the loop over events
GroupOne(by_date, event) ==
    LET d == event_date(event)
        old == IF d \in DOMAIN by_date THEN by_date[d] ELSE <<>>
    IN  [k \in DOMAIN by_date \cup {d} |->
            IF k = d THEN Append(old, DisplayRecord(event)) ELSE by_date[k]]

RECURSIVE GroupFrom(_, _)
GroupFrom(by_date, evs) ==
    IF evs = <<>> THEN by_date
    ELSE GroupFrom(GroupOne(by_date, Head(evs)), Tail(evs))

\* events_by_date after the loop, starting from the empty dict
GroupByDate(evs) == GroupFrom(<<>>, evs)

----------------------------------------------------------------------------
(* Analytics view: weekday counts and duration analysis *)

ZeroDayCounts == [d \in {days_order[i] : i \in DOMAIN days_order} |-> 0]

day_name(event) == strftime_A(ParseStart(StartOf(event)))

RECURSIVE CountDaysFrom(_, _)
CountDaysFrom(counts, evs) ==
    IF evs = <<>> THEN counts
    ELSE CountDaysFrom(
            [counts EXCEPT ![day_name(Head(evs))] = @ + 1], Tail(evs))

\* variant: only the events with a date-time start are counted
CountDaysTimedOnly(evs) ==
    CountDaysFrom(ZeroDayCounts, SelectSeq(evs, LAMBDA e : HasT(StartOf(e))))

CountDays(evs) == CountDaysFrom(ZeroDayCounts, evs)

\* if start and end: both markers carry a date-time
IsTimed(event) ==
    /\ Truthy(Get(event.start, "dateTime", None))
    /\ Truthy(Get(event.end, "dateTime", None))

duration_minutes(event) ==
    MinutesBetween(fromisoformat(replace_Z(event.start.dateTime)),
                   fromisoformat(replace_Z(event.end.dateTime)))

RECURSIVE TimedEvents(_)
TimedEvents(evs) ==
    IF evs = <<>> THEN <<>>
    ELSE IF IsTimed(Head(evs))
         THEN <<[summary |-> Get(Head(evs), "summary", "Untitled"),
                 duration_minutes |-> duration_minutes(Head(evs))]>>
              \o TimedEvents(Tail(evs))
         ELSE TimedEvents(Tail(evs))

\* variant: the 30 and 60 minute boundaries are exclusive
categorize_duration_lt(minutes) ==
    IF minutes <= 15 THEN "0-15 minutes"
    ELSE IF minutes < 30 THEN "16-30 minutes"
    ELSE IF minutes < 60 THEN "31-60 minutes"
    ELSE IF minutes <= 120 THEN "1-2 hours"
    ELSE "2+ hours"

\* variant: the "2+ hours" category starts at two hours
categorize_duration_2h(minutes) ==
    IF minutes <= 15 THEN "0-15 minutes"
    ELSE IF minutes <= 30 THEN "16-30 minutes"
    ELSE IF minutes <= 60 THEN "31-60 minutes"
    ELSE IF minutes < 120 THEN "1-2 hours"
    ELSE "2+ hours"

categorize_duration(minutes) ==
    IF minutes <= 15 THEN "0-15 minutes"
    ELSE IF minutes <= 30 THEN "16-30 minutes"
    ELSE IF minutes <= 60 THEN "31-60 minutes"
    ELSE IF minutes <= 120 THEN "1-2 hours"
    ELSE "2+ hours"

\* variant: one label of the order differs from the label categorize_duration
\* returns, so pd.Categorical drops the rows of that category
category_order_typo ==
    <<"0-15 minutes", "16-30 minutes", "31-60 mins", "1-2 hours", "2+ hours">>

category_order ==
    <<"0-15 minutes", "16-30 minutes", "31-60 minutes", "1-2 hours",
      "2+ hours">>

\* duration_df with its 'category' column
DurationFrame(timed) ==
    [i \in DOMAIN timed |->
        [summary |-> timed[i].summary,
         duration_minutes |-> timed[i].duration_minutes,
         category |-> categorize_duration(timed[i].duration_minutes)]]

\* number of rows of the frame in a category
RowsIn(df, cat) == Cardinality({i \in DOMAIN df : df[i].category = cat})

RECURSIVE CategoryRows(_, _)
CategoryRows(df, i) ==
    IF i > Len(category_order) THEN <<>>
    ELSE IF RowsIn(df, category_order[i]) > 0
         THEN <<[Duration |-> category_order[i],
                 Count |-> RowsIn(df, category_order[i])]>>
              \o CategoryRows(df, i + 1)
         ELSE CategoryRows(df, i + 1)

\* value_counts() keeps the categories that occur; sort_values('Duration')
\* puts the rows in category order
CategoryCounts(df) == CategoryRows(df, 1)

RECURSIVE SumMinutes(_)
SumMinutes(df) ==
    IF df = <<>> THEN 0 ELSE Head(df).duration_minutes + SumMinutes(Tail(df))

\* variant: the mean by integer division
mean_floor(df) == [num |-> SumMinutes(df) \div Len(df), den |-> 1]

\* duration_df['duration_minutes'].mean(), as a fraction
mean(df) == [num |-> SumMinutes(df), den |-> Len(df)]

\* bits of the significand of a Python float (IEEE 754 binary64)
MantissaBits == 53

\* number of binary digits of a natural number
RECURSIVE BitLen(_)
BitLen(n) == IF n = 0 THEN 0 ELSE 1 + BitLen(n \div 2)

\* binary long division of r / den, 0 <= r < den, once the first significant
\* bit is out: left bits of the significand are still to come, last is the
\* bit produced last.  The result is the side of the exact quotient the
\* nearest float lies on (round to nearest, ties to even): 1 above, -1
\* below, 0 when the quotient is itself a float
RECURSIVE RoundSide(_, _, _, _)
RoundSide(r, den, left, last) ==
    IF r = 0 THEN 0
    ELSE IF left = 0
    THEN IF 2 * r > den THEN 1
         ELSE IF 2 * r < den THEN 0 - 1
         ELSE IF last = 1 THEN 1 ELSE 0 - 1
    ELSE RoundSide((2 * r) % den, den, left - 1, (2 * r) \div den)

\* the leading zero bits of a quotient below one
RECURSIVE SkipZeros(_, _)
SkipZeros(r, den) ==
    IF 2 * r < den THEN SkipZeros(2 * r, den)
    ELSE RoundSide(2 * r - den, den, MantissaBits - 1, 1)

\* the float division n / den of two naturals, den > 0, against the exact
\* quotient
FloatSide(n, den) ==
    IF n % den = 0 THEN 0
    ELSE IF n \div den > 0
    THEN RoundSide(n % den, den, MantissaBits - BitLen(n \div den),
                   (n \div den) % 2)
    ELSE SkipZeros(n % den, den)

\* tenths of the float n / den formatted with one decimal: the decimal
\* nearest to the float; the float is on a decimal tie only when the tie is
\* a float itself, and then the even tenth is taken
Tenths(n, den) ==
    LET q == (10 * n) \div den
        r == (10 * n) % den
    IN  IF 2 * r < den THEN q
        ELSE IF 2 * r > den THEN q + 1
        ELSE IF FloatSide(n, den) > 0 THEN q + 1
        ELSE IF FloatSide(n, den) < 0 THEN q
        ELSE IF q % 2 = 0 THEN q ELSE q + 1

\* f"{avg_duration:.1f}" of the float sum / count: signed tenths
Format1f(avg) ==
    IF avg.num >= 0 THEN Tenths(avg.num, avg.den)
    ELSE 0 - Tenths(0 - avg.num, avg.den)

----------------------------------------------------------------------------
(* Authentication *)

\* the handle build('calendar', 'v3', credentials=creds) returns
Service == [client |-> "calendar v3"]

\* what pickle.load finds in token.pickle: creds.valid; or creds.expired with
\* a refresh token; or neither
CredStates == {"valid", "refreshable", "unusable"}

\* the steps of get_calendar_service, in order, for a token file in state
\* file that, when it can be loaded, holds credentials in state cs
AuthPath(file, cs) ==
    (IF file # "absent" THEN <<"load">> ELSE <<>>)
    \o (IF file # "absent" /\ cs = "valid" THEN <<>>
        ELSE (IF file # "absent" /\ cs = "refreshable" THEN <<"refresh">>
              ELSE <<"flow">>) \o <<"open", "dump">>)
    \o <<"build">>

\* the step that raises, or "none"
AuthFailures == {"none", "load", "refresh", "flow", "open", "dump", "build"}

\* index of the step of the path that raises, or 0
FailIndex(path, fail) ==
    IF \E i \in DOMAIN path : path[i] = fail
    THEN CHOOSE i \in DOMAIN path : path[i] = fail
    ELSE 0

\* token.pickle after the steps ran: open(..., 'wb') creates or truncates the
\* file, pickle.dump fills it
TokenAfter(file, ran, k) ==
    IF \E i \in DOMAIN ran : ran[i] = "dump" /\ i # k THEN "token"
    ELSE IF \E i \in DOMAIN ran : ran[i] = "open" /\ i # k THEN "truncated"
    ELSE file

\* get_calendar_service(): the steps it ran, whether it raised, and the state
\* of token.pickle afterwards
get_calendar_service(file, cs, fail) ==
    LET path == AuthPath(file, cs)
        k == FailIndex(path, fail)
        ran == IF k = 0 THEN path ELSE SubSeq(path, 1, k)
    IN  [raised |-> k # 0, steps |-> ran, token |-> TokenAfter(file, ran, k)]

----------------------------------------------------------------------------
(* What one script run renders *)

Msg(kind, text) == [kind |-> kind, text |-> text]

Metric(label, value) == [kind |-> "metric", label |-> label, value |-> value]

\* a run that rendered nothing yet
Blank ==
    [screen |-> "welcome", messages |-> <<>>, uncaught |-> None,
     calls |-> <<>>, events |-> <<>>, events_by_date |-> <<>>,
     day_counts |-> None, duration_df |-> <<>>, category_counts |-> <<>>,
     avg_duration |-> None, submitted |-> None, created |-> None]

\* sidebar of a connected session
Connected == Msg("success", "Connected to Google Calendar")

\* main content of an unauthenticated session; msgs is the sidebar's output
RenderWelcome(msgs) == [Blank EXCEPT !.messages = msgs]

\* events().list(calendarId='primary', timeMin=..., timeMax=...,
\* maxResults=...).execute(), and whether it raised
ListCall(sd, ed, max, raised) ==
    [method |-> "events.list",
     timeMin |-> DateTimeStr(sd, 0, "Z"),
     timeMax |-> DateTimeStr(ed, 1439, "Z"),
     maxResults |-> max,
     raised |-> raised]

\* default of the "Maximum number of events to display" slider
UpcomingMaxResults == 10

AnalyticsMaxResults == 1000

\* the upcoming view for the date range sd..ed, the slider at max and the
\* list outcome resp
RenderUpcoming(sd, ed, max, resp) ==
    LET called == [Blank EXCEPT !.screen = "upcoming",
                                !.messages = <<Connected>>,
                                !.calls = <<ListCall(sd, ed, max, resp.raises)>>]
    IN  IF resp.raises
        THEN [called EXCEPT !.uncaught = [exception |-> "events.list"]]
        ELSE IF resp.items = <<>>
        THEN [called EXCEPT
                 !.messages = @ \o <<Msg("info", "No events found for the selected period.")>>]
        ELSE [called EXCEPT !.events = resp.items,
                            !.events_by_date = GroupByDate(resp.items)]

\* the duration analysis of the analytics view, on top of the output so far
DurationAnalysis(out, evs) ==
    LET timed == TimedEvents(evs)
        df == DurationFrame(timed)
    IN  IF timed # <<>>
        THEN [out EXCEPT
                 !.duration_df = df,
                 !.category_counts = CategoryCounts(df),
                 !.avg_duration = mean(df),
                 !.messages = @ \o <<Metric("Average Event Duration", Format1f(mean(df)))>>]
        ELSE [out EXCEPT
                 !.messages = @ \o <<Msg("info", "No timed events found for duration analysis.")>>]

\* the analytics view for the date range sd..ed and the list outcome resp
RenderAnalytics(sd, ed, resp) ==
    LET shown == [Blank EXCEPT !.screen = "analytics",
                               !.messages = <<Connected>>]
        called == [shown EXCEPT !.calls = <<ListCall(sd, ed, AnalyticsMaxResults, resp.raises)>>]
    IN  IF ~(sd <= ed)
        THEN [shown EXCEPT
                 !.messages = @ \o <<Msg("error", "End date must be after start date")>>]
        ELSE IF resp.raises
        THEN [called EXCEPT !.uncaught = [exception |-> "events.list"]]
        ELSE IF resp.items = <<>>
        THEN [called EXCEPT
                 !.messages = @ \o <<Msg("info", "No events found for the selected period.")>>]
        ELSE DurationAnalysis(
                 [called EXCEPT
                     !.events = resp.items,
                     !.messages = @ \o <<Metric("Total Events", Len(resp.items))>>,
                     !.day_counts = CountDays(resp.items)],
                 resp.items)

----------------------------------------------------------------------------
(* Create view *)

duration_options ==
    [c \in {"15 minutes", "30 minutes", "45 minutes", "1 hour", "1.5 hours",
            "2 hours", "3 hours", "Custom"} |->
        CASE c = "15 minutes" -> 15
          [] c = "30 minutes" -> 30
          [] c = "45 minutes" -> 45
          [] c = "1 hour" -> 60
          [] c = "1.5 hours" -> 90
          [] c = "2 hours" -> 120
          [] c = "3 hours" -> 180
          [] c = "Custom" -> 0 - 1]

\* default of the "Start Time" widget: datetime.time(hour=9, minute=0)
DefaultStartTime == 540

\* default of the "Hours" widget of a custom duration
DefaultCustomHours == 1

\* total_minutes of the form
total_minutes(choice) ==
    IF choice = "Custom" THEN DefaultCustomHours * 60 + 0
    ELSE duration_options[choice]

\* the forms the user submits: title, all-day checkbox, duration choice; the
\* other widgets keep their defaults
Forms ==
    [title : {"", "Sync"}, all_day : BOOLEAN,
     duration_choice : {"15 minutes", "3 hours", "Custom"}]

\* datetime + timedelta(minutes=n), isoformat() of the naive result
PlusMinutes(d, m, n) ==
    DateTimeStr(d + ((m + n) \div 1440), (m + n) % 1440, "")

\* the event body the create view builds
EventBody(form) ==
    [summary |-> form.title,
     location |-> "",
     description |-> "",
     start |-> IF form.all_day
               THEN [date |-> DateStr(Today), timeZone |-> "UTC"]
               ELSE [dateTime |-> PlusMinutes(Today, DefaultStartTime, 0),
                     timeZone |-> "UTC"],
     end |-> IF form.all_day
             THEN [date |-> DateStr(Today + 1), timeZone |-> "UTC"]
             ELSE [dateTime |-> PlusMinutes(Today, DefaultStartTime,
                                            total_minutes(form.duration_choice)),
                   timeZone |-> "UTC"],
     colorId |-> "0",
     reminders |-> [useDefault |-> FALSE,
                    overrides |-> <<[method |-> "popup", minutes |-> 10]>>]]

\* events().insert(calendarId='primary', body=event).execute(), and whether
\* it raised
InsertCall(body, raised) ==
    [method |-> "events.insert", body |-> body, raised |-> raised]

\* the create view of a run in which the form was not submitted
RenderCreate ==
    [Blank EXCEPT !.screen = "create", !.messages = <<Connected>>]

\* variant: the insert is issued before the title is looked at
RenderSubmitUnchecked(form, raises) ==
    IF raises
    THEN [RenderCreate EXCEPT
             !.submitted = form,
             !.calls = <<InsertCall(EventBody(form), TRUE)>>,
             !.messages = @ \o <<Msg("error", "Failed to create event")>>]
    ELSE [RenderCreate EXCEPT
             !.submitted = form,
             !.calls = <<InsertCall(EventBody(form), FALSE)>>,
             !.created = EventBody(form),
             !.messages = @ \o <<Msg("success", "Event created successfully!")>>]

\* the create view of the run the form's submit button triggers
RenderSubmit(form, raises) ==
    IF form.title = ""
    THEN [RenderCreate EXCEPT
             !.submitted = form,
             !.messages = @ \o <<Msg("error", "Please enter an event title")>>]
    ELSE IF raises
    THEN [RenderCreate EXCEPT
             !.submitted = form,
             !.calls = <<InsertCall(EventBody(form), TRUE)>>,
             !.messages = @ \o <<Msg("error", "Failed to create event")>>]
    ELSE [RenderCreate EXCEPT
             !.submitted = form,
             !.calls = <<InsertCall(EventBody(form), FALSE)>>,
             !.created = EventBody(form),
             !.messages = @ \o <<Msg("success", "Event created successfully!")>>]

----------------------------------------------------------------------------
(* The script run as a state change *)

Views == {"upcoming", "create", "analytics"}

\* days ahead of today of the upcoming view's default "To" date
UpcomingDays == 14

\* days before today of the analytics view's default "From Date"
AnalyticsDays == 90

DefaultStart(v) ==
    IF v = "upcoming" THEN Today
    ELSE IF v = "analytics" THEN Today - AnalyticsDays ELSE Today

DefaultEnd(v) ==
    IF v = "upcoming" THEN Today + UpcomingDays ELSE Today

\* the later "From" date and the earlier "To" date the user picks
PickedStart == Today + PickAhead

PickedEnd == Today - PickBack

\* main content of a connected session: the dispatch on session_state.view
RenderView(v, sd, ed, max, resp) ==
    IF v = "upcoming" THEN RenderUpcoming(sd, ed, max, resp)
    ELSE IF v = "create" THEN RenderCreate
    ELSE RenderAnalytics(sd, ed, resp)

\* the outcomes the remote list call of view v can have; a view that issues
\* no list call consumes none
ResponsesFor(v) ==
    IF v = "create" THEN {[raises |-> FALSE, items |-> <<>>]} ELSE ListResponses

\* the run's output becomes what the page shows
Show(out) ==
    /\ screen' = out.screen
    /\ messages' = out.messages
    /\ uncaught' = out.uncaught
    /\ calls' = out.calls
    /\ events' = out.events
    /\ events_by_date' = out.events_by_date
    /\ day_counts' = out.day_counts
    /\ duration_df' = out.duration_df
    /\ category_counts' = out.category_counts
    /\ avg_duration' = out.avg_duration
    /\ submitted' = out.submitted
    /\ created' = out.created

Init ==
    /\ service = None
    /\ view = "upcoming"
    /\ token_file \in {"absent", "token"}
    /\ start_date = DefaultStart("upcoming")
    /\ end_date = DefaultEnd("upcoming")
    /\ max_events = UpcomingMaxResults
    /\ action = "open"
    /\ auth_steps = <<>>
    /\ auth_error = None
    /\ screen = "welcome"
    /\ messages = <<>>
    /\ uncaught = None
    /\ calls = <<>>
    /\ events = <<>>
    /\ events_by_date = <<>>
    /\ day_counts = None
    /\ duration_df = <<>>
    /\ category_counts = <<>>
    /\ avg_duration = None
    /\ submitted = None
    /\ created = None

\* the exception of a get_calendar_service result, or None
AuthError(r) ==
    IF r.raised THEN [exception |-> r.steps[Len(r.steps)]] ELSE None

\* variant: the handle is stored although get_calendar_service raised
ConnectStoresHandle ==
    /\ service = None
    /\ \E cs \in CredStates, fail \in AuthFailures, resp \in ResponsesFor(view) :
        LET r == get_calendar_service(token_file, cs, fail)
        IN  /\ token_file = "truncated" => fail = "load"
            /\ fail = "none" \/ r.raised
            /\ action' = "connect"
            /\ auth_steps' = r.steps
            /\ auth_error' = AuthError(r)
            /\ token_file' = r.token
            /\ start_date' = DefaultStart(view)
            /\ end_date' = DefaultEnd(view)
            /\ max_events' = UpcomingMaxResults
            /\ UNCHANGED view
            /\ service' = Service
            /\ IF r.raised
               THEN Show(RenderWelcome(<<Msg("error", "Authentication failed")>>))
               ELSE Show(RenderView(view, DefaultStart(view), DefaultEnd(view),
                                    UpcomingMaxResults, resp))

\* "Connect to Google Calendar": authentication, then on success st.rerun()
\* and the run that renders the selected view with its default date range
Connect ==
    /\ service = None
    /\ \E cs \in CredStates, fail \in AuthFailures, resp \in ResponsesFor(view) :
        LET r == get_calendar_service(token_file, cs, fail)
        IN  /\ token_file = "truncated" => fail = "load"
            /\ fail = "none" \/ r.raised
            /\ action' = "connect"
            /\ auth_steps' = r.steps
            /\ auth_error' = AuthError(r)
            /\ token_file' = r.token
            /\ start_date' = DefaultStart(view)
            /\ end_date' = DefaultEnd(view)
            /\ max_events' = UpcomingMaxResults
            /\ UNCHANGED view
            /\ IF r.raised
               THEN /\ UNCHANGED service
                    /\ Show(RenderWelcome(<<Msg("error", "Authentication failed")>>))
               ELSE /\ service' = Service
                    /\ Show(RenderView(view, DefaultStart(view), DefaultEnd(view),
                                    UpcomingMaxResults, resp))

\* a navigation button: session_state.view = key, st.rerun(), and the run
\* that renders the view.  The run st.rerun() ends reaches no widget of the
\* main content, so the view is rendered with its default date range and
\* slider position, also when it was the view already on the page
Navigate(v) ==
    /\ service # None
    /\ \E resp \in ResponsesFor(v) :
        /\ action' = "navigate"
        /\ view' = v
        /\ start_date' = DefaultStart(v)
        /\ end_date' = DefaultEnd(v)
        /\ max_events' = UpcomingMaxResults
        /\ auth_steps' = <<>>
        /\ auth_error' = None
        /\ UNCHANGED <<service, token_file>>
        /\ Show(RenderView(v, DefaultStart(v), DefaultEnd(v),
                           UpcomingMaxResults, resp))

\* variant: the run after Logout dispatches on the view without looking at
\* the handle
LogoutStaysOnView ==
    /\ service # None
    /\ \E resp \in ResponsesFor(view) :
        /\ action' = "logout"
        /\ token_file' = IF token_file # "absent" THEN "absent" ELSE token_file
        /\ service' = None
        /\ auth_steps' = <<>>
        /\ auth_error' = None
        /\ UNCHANGED view
        /\ start_date' = DefaultStart(view)
        /\ end_date' = DefaultEnd(view)
        /\ max_events' = UpcomingMaxResults
        /\ Show(RenderView(view, DefaultStart(view), DefaultEnd(view),
                           UpcomingMaxResults, resp))

\* the run of a connected session that an exception ended in the sidebar:
\* the main content is not reached
RenderSidebarDied(exception) ==
    [Blank EXCEPT !.screen = "none",
                  !.messages = <<Connected>>,
                  !.uncaught = [exception |-> exception]]

\* "Logout": token.pickle removed if it exists, the handle dropped,
\* st.rerun(), and the run that renders the welcome screen.  os.remove is in
\* no try: when it raises the run ends there, with the file in place and
\* the handle still set
Logout ==
    /\ service # None
    /\ \E raises \in BOOLEAN :
        /\ raises => token_file # "absent"
        /\ action' = "logout"
        /\ auth_steps' = <<>>
        /\ auth_error' = None
        /\ UNCHANGED view
        /\ start_date' = DefaultStart(view)
        /\ end_date' = DefaultEnd(view)
        /\ max_events' = UpcomingMaxResults
        /\ IF raises
           THEN /\ UNCHANGED <<service, token_file>>
                /\ Show(RenderSidebarDied("os.remove"))
           ELSE /\ token_file' = IF token_file # "absent" THEN "absent"
                                 ELSE token_file
                /\ service' = None
                /\ Show(RenderWelcome(<<>>))

\* the user picks another "From" date in the upcoming or analytics view
SetStartDate ==
    /\ service # None
    /\ screen \in {"upcoming", "analytics"}
    /\ \E resp \in ListResponses :
        /\ action' = "dates"
        /\ start_date' = PickedStart
        /\ auth_steps' = <<>>
        /\ auth_error' = None
        /\ UNCHANGED <<service, view, token_file, end_date, max_events>>
        /\ Show(RenderView(view, PickedStart, end_date, max_events, resp))

\* the user picks another "To" date in the upcoming or analytics view
SetEndDate ==
    /\ service # None
    /\ screen \in {"upcoming", "analytics"}
    /\ \E resp \in ListResponses :
        /\ action' = "dates"
        /\ end_date' = PickedEnd
        /\ auth_steps' = <<>>
        /\ auth_error' = None
        /\ UNCHANGED <<service, view, token_file, start_date, max_events>>
        /\ Show(RenderView(view, start_date, PickedEnd, max_events, resp))

\* the user moves the "Maximum number of events to display" slider of the
\* upcoming view
SetMaxEvents ==
    /\ service # None
    /\ screen = "upcoming"
    /\ \E resp \in ListResponses :
        /\ action' = "slider"
        /\ max_events' = PickedMax
        /\ auth_steps' = <<>>
        /\ auth_error' = None
        /\ UNCHANGED <<service, view, token_file, start_date, end_date>>
        /\ Show(RenderUpcoming(start_date, end_date, PickedMax, resp))

\* "Create Event": the form is submitted and the run handles it
Submit(form, raises) ==
    /\ service # None
    /\ screen = "create"
    /\ action' = "submit"
    /\ auth_steps' = <<>>
    /\ auth_error' = None
    /\ UNCHANGED <<service, view, token_file, start_date, end_date,
                   max_events>>
    /\ Show(RenderSubmit(form, raises))

Next ==
    \/ Connect
    \/ \E v \in Views : Navigate(v)
    \/ Logout
    \/ SetStartDate
    \/ SetEndDate
    \/ SetMaxEvents
    \/ \E form \in Forms, raises \in BOOLEAN : Submit(form, raises)

Spec == Init /\ [][Next]_vars

----------------------------------------------------------------------------
(* Duration analysis on its own: the analytics view right after its list   *)
(* call returned one timed event, for every duration of a range            *)

DurationProbes ==
    {TimedEvent("Probe", BaseDay, 540, BaseDay, 540 + d, tz) :
        d \in (0 - MaxNegative)..MaxMinutes, tz \in {"Z", "+02:00"}}

\* what the run has rendered so far
Rendered ==
    [screen |-> screen, messages |-> messages, uncaught |-> uncaught,
     calls |-> calls, events |-> events, events_by_date |-> events_by_date,
     day_counts |-> day_counts, duration_df |-> duration_df,
     category_counts |-> category_counts, avg_duration |-> avg_duration,
     submitted |-> submitted, created |-> created]

InitDur ==
    /\ service = Service
    /\ view = "analytics"
    /\ token_file = "token"
    /\ start_date = DefaultStart("analytics")
    /\ end_date = DefaultEnd("analytics")
    /\ max_events = UpcomingMaxResults
    /\ action = "navigate"
    /\ auth_steps = <<>>
    /\ auth_error = None
    /\ screen = "analytics"
    /\ \E e \in DurationProbes :
        /\ events = <<e>>
        /\ day_counts = CountDays(<<e>>)
    /\ messages = <<Connected, Metric("Total Events", 1)>>
    /\ uncaught = None
    /\ calls = <<ListCall(start_date, end_date, AnalyticsMaxResults, FALSE)>>
    /\ events_by_date = <<>>
    /\ duration_df = <<>>
    /\ category_counts = <<>>
    /\ avg_duration = None
    /\ submitted = None
    /\ created = None

\* the "Event Duration Analysis" section of the run
AnalyseDurations ==
    /\ duration_df = <<>>
    /\ Show(DurationAnalysis(Rendered, events))
    /\ UNCHANGED <<service, view, token_file, start_date, end_date,
                   max_events, action, auth_steps, auth_error>>

NextDur == AnalyseDurations

SpecDur == InitDur /\ [][NextDur]_vars

----------------------------------------------------------------------------
(* Vocabulary of the properties, stated on the event resources and the     *)
(* page, not through the operators of the views                            *)

HasError == \E i \in DOMAIN messages : messages[i].kind = "error"

HasInfo(text) ==
    \E i \in DOMAIN messages :
        messages[i].kind = "info" /\ messages[i].text = text

\* the upcoming view ran its grouping pass
Grouped == screen = "upcoming" /\ uncaught = None /\ events # <<>>

\* the analytics view ran its analysis
Analysed == screen = "analytics" /\ uncaught = None /\ events # <<>>

StartsWithDateTime(e) == "dateTime" \in DOMAIN e.start

BothDateTime(e) == "dateTime" \in DOMAIN e.start /\ "dateTime" \in DOMAIN e.end

\* the calendar date written in the start marker
WrittenDate(e) ==
    IF StartsWithDateTime(e) THEN e.start.dateTime.date ELSE e.start.date.date

OffsetMinutes(tz) == IF tz = "+02:00" THEN 120 ELSE 0

\* a date-time string as minutes since the epoch
AbsoluteMinute(str) == str.date * 1440 + str.minute - OffsetMinutes(str.tz)

\* start of an event; an all-day event starts at midnight of its date
StartInstant(e) ==
    IF StartsWithDateTime(e) THEN AbsoluteMinute(e.start.dateTime)
    ELSE e.start.date.date * 1440

\* end minus start of a timed event, in minutes
LengthOf(e) == AbsoluteMinute(e.end.dateTime) - AbsoluteMinute(e.start.dateTime)

TimedIndices == {i \in DOMAIN events : BothDateTime(events[i])}

NumTimed == Cardinality(TimedIndices)

RECURSIVE LengthSum(_)
LengthSum(I) ==
    IF I = {} THEN 0
    ELSE LET i == CHOOSE k \in I : TRUE
         IN  LengthOf(events[i]) + LengthSum(I \ {i})

\* the count the duration chart shows for a label
CountOf(label) ==
    IF \E i \in DOMAIN category_counts : category_counts[i].Duration = label
    THEN category_counts[
            CHOOSE i \in DOMAIN category_counts :
                category_counts[i].Duration = label].Count
    ELSE 0

Labels ==
    {"0-15 minutes", "16-30 minutes", "31-60 minutes", "1-2 hours", "2+ hours"}

\* the range of minutes a label stands for
InRange(label, m) ==
    CASE label = "0-15 minutes" -> m <= 15
      [] label = "16-30 minutes" -> 15 < m /\ m <= 30
      [] label = "31-60 minutes" -> 30 < m /\ m <= 60
      [] label = "1-2 hours" -> 60 < m /\ m <= 120
      [] label = "2+ hours" -> 120 < m

WeekdayNames ==
    {"Monday", "Tuesday", "Wednesday", "Thursday", "Friday", "Saturday",
     "Sunday"}

\* weekday of a proleptic Gregorian ordinal: ordinal 1 is a Monday
WeekdayName(ord) ==
    CASE ord % 7 = 1 -> "Monday"
      [] ord % 7 = 2 -> "Tuesday"
      [] ord % 7 = 3 -> "Wednesday"
      [] ord % 7 = 4 -> "Thursday"
      [] ord % 7 = 5 -> "Friday"
      [] ord % 7 = 6 -> "Saturday"
      [] ord % 7 = 0 -> "Sunday"

\* minute of its day at which the event of a display record starts: the
\* time the record shows, the start of the day for "All day"
StartOfDay(rec) ==
    IF "text" \in DOMAIN rec.time THEN 0
    ELSE rec.time.hh * 60 + rec.time.mm

\* the event of the list response a display record was made from
SourceEvent(rec) == CHOOSE e \in EventPool : DisplayRecord(e) = rec

\* a timed event written from minute a to minute b of one day
IsSlot(e, a, b) ==
    /\ BothDateTime(e)
    /\ e.start.dateTime.date = e.end.dateTime.date
    /\ e.start.dateTime.tz = e.end.dateTime.tz
    /\ e.start.dateTime.minute = a
    /\ e.end.dateTime.minute = b

\* the fetched events are 09:00-09:30 and 10:00-11:00 of the same day
ExampleFetched ==
    /\ Len(events) = 2
    /\ \E i, j \in DOMAIN events :
        /\ i # j
        /\ IsSlot(events[i], 540, 570)
        /\ IsSlot(events[j], 600, 660)
        /\ WrittenDate(events[i]) = WrittenDate(events[j])

AverageIs(n) == avg_duration # None /\ avg_duration.num = n * avg_duration.den

----------------------------------------------------------------------------
(* Properties *)

\* C1: every remote call that raises (authentication, the list call of the
\* upcoming view, the list call of the analytics view, the insert of the
\* create view) ends the run with an error message on the page, and no
\* exception escapes the script run.
C1_RemoteFailuresCaught ==
    /\ (\E i \in DOMAIN calls : calls[i].raised) =>
            (HasError /\ uncaught = None)
    /\ (action = "connect" /\ auth_error # None) =>
            (HasError /\ uncaught = None)

\* C2: invalid input stops the run before the remote call: with the end date
\* before the start date the upcoming and analytics views issue no list call
\* and show an error; with an empty title the create view issues no insert
\* call and shows an error.
C2_InvalidInputChecked ==
    /\ (screen \in {"upcoming", "analytics"} /\ end_date < start_date)
            => (calls = <<>> /\ HasError)
    /\ (submitted # None /\ submitted.title = "")
            => (calls = <<>> /\ HasError)

\* C3 as stated: for the events 09:00-09:30 and 10:00-11:00 of one day the
\* duration analysis counts "16-30 minutes": 1, "31-60 minutes": 0,
\* "1-2 hours": 1 and the average duration is 45 minutes.
C3_ExampleAsStated ==
    (Analysed /\ ExampleFetched) =>
        /\ CountOf("16-30 minutes") = 1
        /\ CountOf("31-60 minutes") = 0
        /\ CountOf("1-2 hours") = 1
        /\ AverageIs(45)

\* C3 as amended: for the events 09:00-09:30 and 10:00-11:00 of one day the
\* duration analysis counts "16-30 minutes": 1, "31-60 minutes": 1,
\* "1-2 hours": 0 (the 60 minute event is in the range over 30 and at most
\* 60) and the average duration is 45 minutes.
C3_Example ==
    (Analysed /\ ExampleFetched) =>
        /\ CountOf("16-30 minutes") = 1
        /\ CountOf("31-60 minutes") = 1
        /\ CountOf("1-2 hours") = 0
        /\ CountOf("0-15 minutes") = 0
        /\ CountOf("2+ hours") = 0
        /\ AverageIs(45)

\* the analytics view analysed the two events of the example
C3_Witness == Analysed /\ ExampleFetched /\ Len(duration_df) = 2

\* C4: after the grouping pass of the upcoming view, whatever sequence the
\* list call returned, the display records of each date bucket are in
\* non-decreasing order of event start time.
C4_BucketsSorted ==
    Grouped =>
        \A d \in DOMAIN events_by_date :
            \A i, j \in DOMAIN events_by_date[d] :
                i < j => StartOfDay(events_by_date[d][i])
                            <= StartOfDay(events_by_date[d][j])

\* C5: every row of the duration frame holds the event's end minus start in
\* minutes and carries the one label among the five whose range contains
\* that duration: at most 15; over 15 and at most 30; over 30 and at most
\* 60; over 60 and at most 120; over 120.  Zero and negative durations are
\* in the first range.
C5_OneLabelPerDuration ==
    /\ Len(duration_df) \in {0, NumTimed}
    /\ \A i \in DOMAIN duration_df :
        LET m == duration_df[i].duration_minutes
        IN  /\ \E e \in {events[k] : k \in TimedIndices} : m = LengthOf(e)
            /\ duration_df[i].category \in Labels
            /\ InRange(duration_df[i].category, m)
            /\ Cardinality({l \in Labels : InRange(l, m)}) = 1

\* an event that ends before it starts was put in "0-15 minutes"
C5_Witness ==
    \E i \in DOMAIN duration_df :
        /\ duration_df[i].duration_minutes < 0
        /\ duration_df[i].category = "0-15 minutes"

\* C6: in the analytics view the counts of the duration buckets sum to the
\* number of fetched events whose start and end both carry a date-time;
\* all-day events are in no bucket.
C6_DurationCountsSum ==
    Analysed =>
        /\ CountOf("0-15 minutes") + CountOf("16-30 minutes")
            + CountOf("31-60 minutes") + CountOf("1-2 hours")
            + CountOf("2+ hours") = NumTimed
        /\ Len(duration_df) = NumTimed
        /\ \A i \in DOMAIN category_counts :
            /\ category_counts[i].Duration \in Labels
            /\ \A j \in DOMAIN category_counts :
                category_counts[i].Duration = category_counts[j].Duration
                    => i = j

\* a timed event was fetched with an event that lacks a date-time (an all-day
\* event, or one with a date-only end) and only the timed one was counted
C6_Witness ==
    /\ Analysed
    /\ Len(events) = 2
    /\ NumTimed = 1
    /\ CountOf("31-60 minutes") = 1
    /\ \E i \in DOMAIN events : ~BothDateTime(events[i])

\* C7: in the analytics view every fetched event increments exactly one of
\* the seven weekday counters, the one of its start date, so the seven
\* counts sum to the number of fetched events, the value shown as
\* Total Events.
C7_WeekdayCountsSum ==
    Analysed =>
        /\ DOMAIN day_counts = WeekdayNames
        /\ \A n \in WeekdayNames :
            day_counts[n] =
                Cardinality({i \in DOMAIN events :
                                WeekdayName(WrittenDate(events[i])) = n})
        /\ day_counts["Monday"] + day_counts["Tuesday"]
            + day_counts["Wednesday"] + day_counts["Thursday"]
            + day_counts["Friday"] + day_counts["Saturday"]
            + day_counts["Sunday"] = Len(events)
        /\ \E i \in DOMAIN messages :
            /\ messages[i].kind = "metric"
            /\ messages[i].label = "Total Events"
            /\ messages[i].value = Len(events)

\* an all-day event and a timed event of another weekday were counted
C7_Witness ==
    /\ Analysed
    /\ \E i, j \in DOMAIN events :
        /\ ~StartsWithDateTime(events[i])
        /\ StartsWithDateTime(events[j])
        /\ WeekdayName(WrittenDate(events[i]))
            # WeekdayName(WrittenDate(events[j]))
        /\ day_counts[WeekdayName(WrittenDate(events[i]))] >= 1
        /\ day_counts[WeekdayName(WrittenDate(events[j]))] >= 1

\* C8: the grouping pass of the upcoming view puts every event in exactly one
\* date bucket, the bucket of the date written in its start marker (the date
\* component of a date-time, the date of an all-day event); a bucket holds
\* the records of the events of its date, in the order fetched, and no other.
C8_BucketIsWrittenDate ==
    Grouped =>
        /\ DOMAIN events_by_date = {WrittenDate(events[i]) : i \in DOMAIN events}
        /\ \A d \in DOMAIN events_by_date :
            [i \in DOMAIN events_by_date[d] |->
                SourceEvent(events_by_date[d][i])]
              = SelectSeq(events, LAMBDA e : WrittenDate(e) = d)

\* an event written on one date whose start is on the previous date in UTC
\* was grouped, next to an event of that previous date
C8_Witness ==
    /\ Grouped
    /\ \E i, j \in DOMAIN events :
        /\ StartsWithDateTime(events[i])
        /\ StartInstant(events[i]) \div 1440 # WrittenDate(events[i])
        /\ WrittenDate(events[j]) = StartInstant(events[i]) \div 1440
        /\ Len(events_by_date[WrittenDate(events[i])]) = 1

\* C9: the average duration of the analytics view is the sum of the timed
\* events' durations in minutes divided by their number, shown to one
\* decimal place; with no timed event among the fetched events it is not
\* computed and an informational message is shown instead.
C9_AverageIsMean ==
    Analysed =>
        IF NumTimed > 0
        THEN /\ avg_duration # None
             /\ avg_duration.den > 0
             /\ avg_duration.num * NumTimed
                    = LengthSum(TimedIndices) * avg_duration.den
             /\ ~HasInfo("No timed events found for duration analysis.")
             /\ \E i \in DOMAIN messages :
                 /\ messages[i].kind = "metric"
                 /\ messages[i].label = "Average Event Duration"
                 /\ LET off == 10 * LengthSum(TimedIndices)
                                   - messages[i].value * NumTimed
                    IN  -NumTimed <= 2 * off /\ 2 * off <= NumTimed
        ELSE /\ avg_duration = None
             /\ HasInfo("No timed events found for duration analysis.")
             /\ \A i \in DOMAIN messages :
                 messages[i].kind = "metric"
                    => messages[i].label # "Average Event Duration"

\* the mean of two timed events that is no whole number of minutes
C9_Witness ==
    /\ Analysed
    /\ NumTimed = 2
    /\ avg_duration # None
    /\ avg_duration.num % avg_duration.den # 0

\* C10: every Logout ends with token.pickle gone, the service handle None
\* and the welcome screen rendered without any remote call; the next
\* successful Connect runs the authorisation flow anew.
C10_LogoutClearsCredential ==
    [][/\ action' = "logout" =>
            /\ token_file' = "absent"
            /\ service' = None
            /\ screen' = "welcome"
            /\ calls' = <<>>
       /\ (action = "logout" /\ service' # None) =>
            /\ action' = "connect"
            /\ \E i \in DOMAIN auth_steps' : auth_steps'[i] = "flow"
            /\ \A i \in DOMAIN auth_steps' : auth_steps'[i] # "load"]_vars

\* C11: a Connect whose get_calendar_service raises leaves the session
\* unauthenticated: the service handle was None and stays None, the
\* "Authentication failed" error is shown on the welcome screen, no calendar
\* call is issued and the selected view is unchanged.
C11_FailedAuthStaysOut ==
    [][(action' = "connect" /\ auth_error' # None) =>
            /\ service = None
            /\ service' = None
            /\ view' = view
            /\ screen' = "welcome"
            /\ calls' = <<>>
            /\ \E i \in DOMAIN messages' :
                /\ messages'[i].kind = "error"
                /\ messages'[i].text = "Authentication failed"]_vars

\* a Connect failed after the user had selected the analytics view
C11_Witness ==
    /\ action = "connect"
    /\ auth_error # None
    /\ service = None
    /\ view = "analytics"
    /\ HasError

\* C12: a run issues at most one remote calendar call and renders a result
\* only of a call that returned: the upcoming and analytics views issue at
\* most one list call and nothing else, the create view issues no call
\* unless the form is submitted with a title and then exactly one insert,
\* and the welcome screen issues none.
C12_OneCallPerRun ==
    /\ Len(calls) <= 1
    /\ screen \in {"upcoming", "analytics"} =>
        \A i \in DOMAIN calls : calls[i].method = "events.list"
    /\ screen = "create" =>
        IF submitted # None /\ submitted.title # ""
        THEN Len(calls) = 1 /\ calls[1].method = "events.insert"
        ELSE calls = <<>>
    /\ screen = "welcome" => calls = <<>>
    /\ events # <<>> =>
        Len(calls) = 1 /\ calls[1].method = "events.list" /\ ~calls[1].raised
    /\ created # None =>
        /\ Len(calls) = 1
        /\ calls[1].method = "events.insert"
        /\ ~calls[1].raised
        /\ created = calls[1].body
    /\ (\E i \in DOMAIN calls : calls[i].raised) =>
        events = <<>> /\ created = None

\* the create view handled a form with a title by one insert that returned
C12_Witness ==
    /\ screen = "create"
    /\ submitted # None
    /\ submitted.title # ""
    /\ Len(calls) = 1
    /\ calls[1].method = "events.insert"
    /\ created # None

\* C13: whatever the sequence of Connect, navigation, date, slider,
\* form-submit and Logout actions, a remote calendar call is issued only by
\* a run of a session whose service handle is set; an unauthenticated
\* session renders the welcome screen only; a connected one renders the
\* selected view, or nothing when the run ended in the sidebar; the selected
\* view is always one of upcoming, create and analytics.
C13_CallsOnlyWhenConnected ==
    /\ view \in {"upcoming", "create", "analytics"}
    /\ calls # <<>> => service # None
    /\ service = None =>
        /\ screen = "welcome"
        /\ calls = <<>>
        /\ events = <<>>
        /\ created = None
    /\ service # None =>
        \/ screen = view
        \/ screen = "none" /\ uncaught # None /\ calls = <<>>

\* a session that selected the create view and logged out: the welcome
\* screen is rendered and the selection is kept
C13_Witness ==
    /\ service = None
    /\ action = "logout"
    /\ view = "create"
    /\ screen = "welcome"
    /\ calls = <<>>

====
